---------------------------- MODULE Spec2Model ----------------------------
(***************************************************************************)
(* Model of src/src/main.rs: slicing a polygon by an ordered list of       *)
(* cutting segments and reporting the area of the largest fragment.        *)
(*                                                                         *)
(* Numbers.  The program computes in f64.  The model computes in exact     *)
(* rational arithmetic: a number is a pair <<n, d>> in lowest terms with   *)
(* d > 0.  Every comparison against EPSILON (1e-10) is kept, so a value    *)
(* that lies within EPSILON of a threshold is treated as the code treats   *)
(* it; what the model does not show is the rounding error of the f64       *)
(* operations themselves.  polygon_area's rounding to 7 decimals is        *)
(* modelled exactly: the area is returned as the integer number of 1e-7    *)
(* units (0.375 is 3750000).  Where the rounding of the f64 operations     *)
(* decides the outcome (polygon_area of a vertex sequence and of its       *)
(* reversal), polygon_area is modelled a second time, polygon_area_f64,    *)
(* with every operation rounded to a 53-bit mantissa as f64 rounds it.     *)
(*                                                                         *)
(* Option<T> is a sequence: <<>> is None, <<v>> is Some(v).                *)
(***************************************************************************)
EXTENDS Integers, Sequences, FiniteSets, TLC

VARIABLES polygon_points, lines, polygons, idx, pc, largest_area

vars == <<polygon_points, lines, polygons, idx, pc, largest_area>>

(***************************************************************************)
(* Bounds of the model.                                                    *)
(***************************************************************************)
\* Longest list of cutting lines handed to get_largest_polygon_area.
MaxLines == 2
\* Endpoints of the segments tried against split_polygon lie on the grid
\* {0, 1/2, ..., GridMax/2} x {0, 1/2, ..., GridMax/2}.
GridMax == 2
\* polygon_area in f64 is tried on vertex sequences of at most AreaMaxVertices
\* points with coordinates 0, 1 and 2^BigExponent.
AreaMaxVertices == 4
BigExponent == 27

(***************************************************************************)
(* f64 arithmetic, exact.                                                  *)
(***************************************************************************)
IAbs(i) == IF i < 0 THEN -i ELSE i

RECURSIVE Gcd(_, _)
Gcd(a, b) == IF b = 0 THEN a ELSE Gcd(b, a % b)

\* The number n/d (d # 0), in lowest terms with a positive denominator.
Q(n, d) ==
    LET g == Gcd(IAbs(n), IAbs(d))
        s == IF d < 0 THEN -1 ELSE 1
    IN  <<(s * n) \div g, (s * d) \div g>>

Zero == <<0, 1>>
One == <<1, 1>>

Add(a, b) == Q(a[1] * b[2] + b[1] * a[2], a[2] * b[2])
Neg(a) == <<-a[1], a[2]>>
Sub(a, b) == Add(a, Neg(b))
Mul(a, b) == Q(a[1] * b[1], a[2] * b[2])
Div(a, b) == Q(a[1] * b[2], a[2] * b[1])
FAbs(a) == <<IAbs(a[1]), a[2]>>
Lt(a, b) == a[1] * b[2] < b[1] * a[2]
\* -1, 0 or 1
Sign(a) == IF a[1] > 0 THEN 1 ELSE IF a[1] < 0 THEN -1 ELSE 0

\* EPSILON = 1e-10 = 1 / (EpsilonRoot * EpsilonRoot); 10^10 itself does not
\* fit the checker's integers, so the comparisons divide twice instead.
EpsilonRoot == 100000

\* a < EPSILON
LtEpsilon(a) == a[1] <= ((a[2] - 1) \div EpsilonRoot) \div EpsilonRoot
\* a <= EPSILON
LeEpsilon(a) == a[1] <= (a[2] \div EpsilonRoot) \div EpsilonRoot
\* a >= -EPSILON
GeNegEpsilon(a) == LeEpsilon(Neg(a))

(***************************************************************************)
(* struct Point, struct Line                                               *)
(***************************************************************************)
Point(x, y) == [x |-> x, y |-> y]
Line(p1, p2) == [p1 |-> p1, p2 |-> p2]

(***************************************************************************)
(* line_segment_intersection                                               *)
(***************************************************************************)
line_segment_intersection(line1, line2) ==
    LET x1 == line1.p1.x
        y1 == line1.p1.y
        x2 == line1.p2.x
        y2 == line1.p2.y
        x3 == line2.p1.x
        y3 == line2.p1.y
        x4 == line2.p2.x
        y4 == line2.p2.y
        dx1 == Sub(x2, x1)
        dy1 == Sub(y2, y1)
        dx2 == Sub(x4, x3)
        dy2 == Sub(y4, y3)
        denom == Sub(Mul(dx1, dy2), Mul(dy1, dx2))
    IN  IF LtEpsilon(FAbs(denom))
        THEN <<>>
        ELSE LET dx3 == Sub(x3, x1)
                 dy3 == Sub(y3, y1)
                 t == Div(Sub(Mul(dx3, dy2), Mul(dy3, dx2)), denom)
                 u == Div(Sub(Mul(dx3, dy1), Mul(dy3, dx1)), denom)
             IN  IF /\ GeNegEpsilon(t)
                    /\ LeEpsilon(Sub(t, One))
                    /\ GeNegEpsilon(u)
                    /\ LeEpsilon(Sub(u, One))
                 THEN <<Point(Add(x1, Mul(t, dx1)), Add(y1, Mul(t, dy1)))>>
                 ELSE <<>>

(***************************************************************************)
(* find_intersections                                                      *)
(***************************************************************************)
\* (i + 1) % len, for the 1-based indices of a sequence.
NextIndex(i, len) == (i % len) + 1

Edge(polygon, i) == Line(polygon[i], polygon[NextIndex(i, Len(polygon))])

\* The loop of lines 56-68: the intersections of the edges i..len, in edge order.
RECURSIVE EdgeHits(_, _, _)
EdgeHits(polygon, line, i) ==
    IF i > Len(polygon)
    THEN <<>>
    ELSE line_segment_intersection(line, Edge(polygon, i))
             \o EdgeHits(polygon, line, i + 1)

\* The comparator of sort_by: by x, then by y.
PointBefore(a, b) == \/ Lt(a.x, b.x)
                     \/ (a.x = b.x /\ Lt(a.y, b.y))

\* Insert p into the sorted sequence s behind the elements not after it.
RECURSIVE SortedInsert(_, _)
SortedInsert(s, p) ==
    IF s = <<>>
    THEN <<p>>
    ELSE IF PointBefore(p, Head(s))
         THEN <<p>> \o s
         ELSE <<Head(s)>> \o SortedInsert(Tail(s), p)

\* Vec::sort_by (stable).
RECURSIVE SortPoints(_)
SortPoints(s) ==
    IF s = <<>>
    THEN <<>>
    ELSE SortedInsert(SortPoints(SubSeq(s, 1, Len(s) - 1)), s[Len(s)])

\* The closure of dedup_by.
SameBucket(a, b) == /\ LtEpsilon(FAbs(Sub(a.x, b.x)))
                    /\ LtEpsilon(FAbs(Sub(a.y, b.y)))

\* Vec::dedup_by: an element is dropped when it is in the bucket of the last
\* element retained.  kept is the retained prefix, s what is left to scan.
RECURSIVE DedupBy(_, _)
DedupBy(kept, s) ==
    IF s = <<>>
    THEN kept
    ELSE IF kept # <<>> /\ SameBucket(Head(s), kept[Len(kept)])
         THEN DedupBy(kept, Tail(s))
         ELSE DedupBy(Append(kept, Head(s)), Tail(s))

find_intersections(polygon, line) ==
    DedupBy(<<>>, SortPoints(EdgeHits(polygon, line, 1)))

(***************************************************************************)
(* point_line_side                                                         *)
(***************************************************************************)
point_line_side(line, p) ==
    LET dx == Sub(line.p2.x, line.p1.x)
        dy == Sub(line.p2.y, line.p1.y)
    IN  Sub(Mul(Sub(p.x, line.p1.x), dy), Mul(Sub(p.y, line.p1.y), dx))

(***************************************************************************)
(* split_polygon                                                           *)
(***************************************************************************)
\* acc holds polygon_a, polygon_b and the two inserted_*_intersection flags.
SplitStart == [a |-> <<>>, b |-> <<>>, first |-> FALSE, second |-> FALSE]

\* Lines 114-120 with an exclusive test for polygon_b: a vertex on the line
\* goes to polygon_a only.
PushCurrentStrict(acc, side, current) ==
    [acc EXCEPT !.a = IF GeNegEpsilon(side) THEN Append(acc.a, current) ELSE acc.a,
                !.b = IF ~GeNegEpsilon(side) THEN Append(acc.b, current) ELSE acc.b]

\* Lines 114-120: the current vertex goes to the polygon(s) of its side.
PushCurrent(acc, side, current) ==
    [acc EXCEPT !.a = IF GeNegEpsilon(side) THEN Append(acc.a, current) ELSE acc.a,
                !.b = IF LeEpsilon(side) THEN Append(acc.b, current) ELSE acc.b]

\* Lines 128-147 without the inserted_*_intersection flags.
InsertInterceptUnflagged(acc, intersections, hit) ==
    IF hit = <<>> \/ intersections = <<>>
    THEN acc
    ELSE IF \E k \in 1..Len(intersections) : k <= 2 /\ intersections[k] = hit[1]
         THEN [acc EXCEPT !.a = Append(acc.a, hit[1]), !.b = Append(acc.b, hit[1])]
         ELSE acc

\* Lines 128-147 with the intercept pushed to polygon_a only.
InsertInterceptOneSided(acc, intersections, hit) ==
    IF hit = <<>> \/ intersections = <<>>
    THEN acc
    ELSE IF intersections[1] = hit[1] /\ ~acc.first
         THEN [acc EXCEPT !.a = Append(acc.a, hit[1]), !.first = TRUE]
         ELSE IF /\ Len(intersections) > 1
                 /\ intersections[2] = hit[1]
                 /\ ~acc.second
              THEN [acc EXCEPT !.a = Append(acc.a, hit[1]), !.second = TRUE]
              ELSE acc

\* Lines 128-147: hit is the intersection of the line with the edge leaving
\* the current vertex.  It is pushed to both polygons when it is, exactly, one
\* of the first two registered intersections and that one is not yet inserted.
InsertIntercept(acc, intersections, hit) ==
    IF hit = <<>> \/ intersections = <<>>
    THEN acc
    ELSE IF intersections[1] = hit[1] /\ ~acc.first
         THEN [a |-> Append(acc.a, hit[1]), b |-> Append(acc.b, hit[1]),
               first |-> TRUE, second |-> acc.second]
         ELSE IF /\ Len(intersections) > 1
                 /\ intersections[2] = hit[1]
                 /\ ~acc.second
              THEN [a |-> Append(acc.a, hit[1]), b |-> Append(acc.b, hit[1]),
                    first |-> acc.first, second |-> TRUE]
              ELSE acc

\* One iteration of the loop of lines 109-148, for vertex i.
SplitVertex(polygon, line, intersections, i, acc) ==
    InsertIntercept(
        PushCurrent(acc, point_line_side(line, polygon[i]), polygon[i]),
        intersections,
        line_segment_intersection(line, Edge(polygon, i)))

RECURSIVE SplitLoop(_, _, _, _, _)
SplitLoop(polygon, line, intersections, i, acc) ==
    IF i > Len(polygon)
    THEN acc
    ELSE SplitLoop(polygon, line, intersections, i + 1,
                   SplitVertex(polygon, line, intersections, i, acc))

\* None is <<>>; Some(vec![polygon_a, polygon_b]) is <<<<polygon_a, polygon_b>>>>.
split_polygon(polygon, line) ==
    LET intersections == find_intersections(polygon, line)
    IN  IF Len(intersections) # 2
        THEN <<>>
        ELSE LET r == SplitLoop(polygon, line, intersections, 1, SplitStart)
             IN  <<<<r.a, r.b>>>>

(***************************************************************************)
(* polygon_area                                                            *)
(***************************************************************************)
\* The loop of lines 160-168: area accumulates twice the signed area.
RECURSIVE Shoelace(_, _, _)
Shoelace(points, i, area) ==
    IF i > Len(points)
    THEN area
    ELSE LET p == points[i]
             q == points[NextIndex(i, Len(points))]
         IN  Shoelace(points, i + 1,
                      Add(area, Sub(Mul(p.x, q.y), Mul(q.x, p.y))))

\* Long division: acc holds the digits of the quotient produced so far, r/d
\* (0 <= r < d) is what is left and k the number of decimals still to come.
\* The last step rounds, halves away from zero as f64::round does.
RECURSIVE RoundDigits(_, _, _, _)
RoundDigits(acc, r, d, k) ==
    IF k = 0
    THEN IF 2 * r >= d THEN acc + 1 ELSE acc
    ELSE RoundDigits(10 * acc + (10 * r) \div d, (10 * r) % d, d, k - 1)

\* The number of decimals polygon_area keeps: 10_000_000 = 10^7.
AreaDecimals == 7

\* (a * 10_000_000.0).round() for a >= 0: a in units of 1e-7, rounded.
RoundArea(a) == RoundDigits(a[1] \div a[2], a[1] % a[2], a[2], AreaDecimals)

polygon_area(points) ==
    IF Len(points) < 3
    THEN 0
    ELSE RoundArea(FAbs(Div(Shoelace(points, 1, Zero), <<2, 1>>)))

(***************************************************************************)
(* polygon_area in f64 arithmetic: every operation of lines 154-171 rounds *)
(* its exact result to the nearest f64, ties to even.  Exponents are not   *)
(* bounded: no overflow to infinity, no subnormals.                        *)
(***************************************************************************)
RECURSIVE Pow2(_)
Pow2(n) == IF n = 0 THEN 1 ELSE 2 * Pow2(n - 1)

\* Naturals of any size, for the 53-bit mantissas and their products: limbs of LimbBits bits, least significant first,
\* the last limb not 0.
LimbBits == 7
LimbBase == Pow2(LimbBits)

RECURSIVE Limbs(_)
Limbs(n) == IF n = 0 THEN <<>> ELSE <<n % LimbBase>> \o Limbs(n \div LimbBase)

LimbAt(a, i) == IF i <= Len(a) THEN a[i] ELSE 0

RECURSIVE BigTrim(_)
BigTrim(a) ==
    IF a = <<>> \/ a[Len(a)] # 0 THEN a ELSE BigTrim(SubSeq(a, 1, Len(a) - 1))

RECURSIVE BigAddFrom(_, _, _, _)
BigAddFrom(a, b, i, carry) ==
    IF i > Len(a) /\ i > Len(b)
    THEN IF carry = 0 THEN <<>> ELSE <<carry>>
    ELSE LET s == LimbAt(a, i) + LimbAt(b, i) + carry
         IN  <<s % LimbBase>> \o BigAddFrom(a, b, i + 1, s \div LimbBase)
BigAdd(a, b) == BigAddFrom(a, b, 1, 0)

\* a - b for a >= b
RECURSIVE BigSubFrom(_, _, _, _)
BigSubFrom(a, b, i, borrow) ==
    IF i > Len(a)
    THEN <<>>
    ELSE LET d == LimbAt(a, i) - LimbAt(b, i) - borrow
         IN  <<d % LimbBase>> \o BigSubFrom(a, b, i + 1, IF d < 0 THEN 1 ELSE 0)
BigSub(a, b) == BigTrim(BigSubFrom(a, b, 1, 0))

RECURSIVE BigLessFrom(_, _, _)
BigLessFrom(a, b, i) ==
    IF i = 0 THEN FALSE
    ELSE IF a[i] # b[i] THEN a[i] < b[i] ELSE BigLessFrom(a, b, i - 1)
BigLess(a, b) ==
    IF Len(a) # Len(b) THEN Len(a) < Len(b) ELSE BigLessFrom(a, b, Len(a))

\* a * m for 0 < m <= LimbBase
RECURSIVE BigMulSmallFrom(_, _, _, _)
BigMulSmallFrom(a, m, i, carry) ==
    IF i > Len(a)
    THEN IF carry = 0 THEN <<>> ELSE <<carry>>
    ELSE LET s == a[i] * m + carry
         IN  <<s % LimbBase>> \o BigMulSmallFrom(a, m, i + 1, s \div LimbBase)
BigMulSmall(a, m) == BigTrim(BigMulSmallFrom(a, m, 1, 0))

BigShlLimbs(a, k) == IF a = <<>> THEN <<>> ELSE [i \in 1..k |-> 0] \o a

RECURSIVE BigMulFrom(_, _, _)
BigMulFrom(a, b, i) ==
    IF i > Len(b)
    THEN <<>>
    ELSE BigAdd(BigMulSmall(a, b[i]), BigShlLimbs(BigMulFrom(a, b, i + 1), 1))
BigMul(a, b) == BigTrim(BigMulFrom(a, b, 1))

\* Long division of a by the integer d (d * LimbBase within the integers),
\* from the top limb i down: q holds the limbs of the quotient, r the remainder.
RECURSIVE BigDivFrom(_, _, _, _, _)
BigDivFrom(a, d, i, q, r) ==
    IF i = 0
    THEN [quot |-> BigTrim(q), rem |-> r]
    ELSE BigDivFrom(a, d, i - 1, <<(r * LimbBase + a[i]) \div d>> \o q,
                    (r * LimbBase + a[i]) % d)
BigDiv(a, d) == BigDivFrom(a, d, Len(a), <<>>, 0)

\* a * 2^k, floor(a / 2^k)
BigShl(a, k) == BigShlLimbs(BigMulSmall(a, Pow2(k % LimbBits)), k \div LimbBits)
BigShr(a, k) ==
    IF k \div LimbBits >= Len(a)
    THEN <<>>
    ELSE BigDiv(SubSeq(a, (k \div LimbBits) + 1, Len(a)), Pow2(k % LimbBits)).quot

RECURSIVE IntBitLen(_)
IntBitLen(n) == IF n = 0 THEN 0 ELSE 1 + IntBitLen(n \div 2)
BitLen(a) == IF a = <<>> THEN 0 ELSE LimbBits * (Len(a) - 1) + IntBitLen(a[Len(a)])

RECURSIVE IntTrailingZeros(_)
IntTrailingZeros(n) == IF n % 2 = 1 THEN 0 ELSE 1 + IntTrailingZeros(n \div 2)
\* for a # 0
RECURSIVE TrailingZeros(_, _)
TrailingZeros(a, i) ==
    IF a[i] = 0 THEN LimbBits + TrailingZeros(a, i + 1) ELSE IntTrailingZeros(a[i])

BigIsOdd(a) == a # <<>> /\ a[1] % 2 = 1

MantissaBits == 53

\* +-man * 2^exp with man odd, or zero
Dyadic(neg, man, exp) ==
    IF man = <<>>
    THEN [neg |-> FALSE, man |-> <<>>, exp |-> 0]
    ELSE LET t == TrailingZeros(man, 1)
         IN  [neg |-> neg, man |-> BigShr(man, t), exp |-> exp + t]

F64Zero == Dyadic(FALSE, <<>>, 0)
F64FromInt(n) == Dyadic(n < 0, Limbs(IF n < 0 THEN -n ELSE n), 0)

\* round to nearest, ties to even
F64Round(v) ==
    IF BitLen(v.man) <= MantissaBits
    THEN v
    ELSE LET drop == BitLen(v.man) - MantissaBits
             kept == BigShr(v.man, drop)
             rest == BigSub(v.man, BigShl(kept, drop))
             half == BigShl(<<1>>, drop - 1)
             up == BigLess(half, rest) \/ (rest = half /\ BigIsOdd(kept))
         IN  Dyadic(v.neg, IF up THEN BigAdd(kept, <<1>>) ELSE kept, v.exp + drop)

ExactMul(a, b) == Dyadic(a.neg # b.neg, BigMul(a.man, b.man), a.exp + b.exp)
ExactAdd(a, b) ==
    LET e == IF a.exp < b.exp THEN a.exp ELSE b.exp
        ma == BigShl(a.man, a.exp - e)
        mb == BigShl(b.man, b.exp - e)
    IN  IF a.neg = b.neg
        THEN Dyadic(a.neg, BigAdd(ma, mb), e)
        ELSE IF BigLess(ma, mb)
             THEN Dyadic(b.neg, BigSub(mb, ma), e)
             ELSE Dyadic(a.neg, BigSub(ma, mb), e)
F64Neg(a) == IF a.man = <<>> THEN a ELSE [a EXCEPT !.neg = ~a.neg]
F64Abs(a) == [a EXCEPT !.neg = FALSE]
F64Mul(a, b) == F64Round(ExactMul(a, b))
F64Add(a, b) == F64Round(ExactAdd(a, b))
F64Sub(a, b) == F64Round(ExactAdd(a, F64Neg(b)))
\* a / d for the f64 d that holds the positive integer d
F64DivInt(a, d) ==
    IF a.man = <<>>
    THEN a
    ELSE LET want == MantissaBits + 2 + IntBitLen(d)
             k == IF BitLen(a.man) >= want THEN 0 ELSE want - BitLen(a.man)
             qr == BigDiv(BigShl(a.man, k), d)
             sticky == IF qr.rem = 0 THEN <<>> ELSE <<1>>
         IN  F64Round(Dyadic(a.neg, BigAdd(BigShl(qr.quot, 1), sticky), a.exp - k - 1))
\* f64::round: to the nearest integer, halves away from zero
F64RoundInt(a) ==
    IF a.exp >= 0
    THEN a
    ELSE LET whole == BigShr(a.man, -a.exp)
             half == BigIsOdd(BigShr(a.man, -a.exp - 1))
         IN  Dyadic(a.neg, IF half THEN BigAdd(whole, <<1>>) ELSE whole, 0)

RECURSIVE ShoelaceF64(_, _, _)
ShoelaceF64(points, i, area) ==
    IF i > Len(points)
    THEN area
    ELSE LET p == points[i]
             q == points[NextIndex(i, Len(points))]
         IN  ShoelaceF64(points, i + 1,
                 F64Add(area, F64Sub(F64Mul(p.x, q.y), F64Mul(q.x, p.y))))
AreaScale == 10000000
polygon_area_f64(points) ==
    IF Len(points) < 3
    THEN F64Zero
    ELSE F64DivInt(F64RoundInt(F64Mul(F64Abs(F64DivInt(ShoelaceF64(points, 1, F64Zero), 2)),
                                      F64FromInt(AreaScale))),
                   AreaScale)

(***************************************************************************)
(* get_largest_polygon_area                                                *)
(***************************************************************************)
\* Lines 182-191 without the None arm: a polygon that is not cut is lost.
SplitOrDrop(poly, line) ==
    LET split_result == split_polygon(poly, line)
    IN  IF split_result # <<>> THEN split_result[1] ELSE <<>>

\* The body of the loop of lines 182-191 for one polygon: what it appends
\* to new_polygons.
SplitOrKeep(poly, line) ==
    LET split_result == split_polygon(poly, line)
    IN  IF split_result # <<>> THEN split_result[1] ELSE <<poly>>

\* The loop of lines 182-191 cutting the first polygon only.
RECURSIVE NewPolygonsFirstOnly(_, _, _)
NewPolygonsFirstOnly(polys, line, i) ==
    IF i > Len(polys)
    THEN <<>>
    ELSE (IF i = 1 THEN SplitOrKeep(polys[i], line) ELSE <<polys[i]>>)
             \o NewPolygonsFirstOnly(polys, line, i + 1)

\* The loop of lines 182-191 keeping a cut polygon beside its fragments.
RECURSIVE NewPolygonsKeepsParent(_, _, _)
NewPolygonsKeepsParent(polys, line, i) ==
    IF i > Len(polys)
    THEN <<>>
    ELSE (IF split_polygon(polys[i], line) # <<>>
          THEN <<polys[i]>> \o SplitOrKeep(polys[i], line)
          ELSE <<polys[i]>>)
             \o NewPolygonsKeepsParent(polys, line, i + 1)

\* The loop of lines 182-191: new_polygons after the polygons i..len.
RECURSIVE NewPolygons(_, _, _)
NewPolygons(polys, line, i) ==
    IF i > Len(polys)
    THEN <<>>
    ELSE SplitOrKeep(polys[i], line) \o NewPolygons(polys, line, i + 1)

\* The loop of lines 198-204 stopping one polygon early.
RECURSIVE LargestAreaSkipsLast(_, _, _)
LargestAreaSkipsLast(polys, i, largest) ==
    IF i >= Len(polys)
    THEN largest
    ELSE LET area == polygon_area(polys[i])
         IN  LargestAreaSkipsLast(polys, i + 1,
                                  IF area > largest THEN area ELSE largest)

\* The loop of lines 198-204.
RECURSIVE LargestArea(_, _, _)
LargestArea(polys, i, largest) ==
    IF i > Len(polys)
    THEN largest
    ELSE LET area == polygon_area(polys[i])
         IN  LargestArea(polys, i + 1, IF area > largest THEN area ELSE largest)

(***************************************************************************)
(* Inputs.                                                                 *)
(***************************************************************************)
\* The point (a/4, b/4).
P4(a, b) == Point(Q(a, 4), Q(b, 4))

\* The polygon of every test of main.rs.
UnitSquare == <<P4(0, 0), P4(4, 0), P4(4, 4), P4(0, 4)>>
\* The same, clockwise.
UnitSquareCw == <<P4(0, 4), P4(4, 4), P4(4, 0), P4(0, 0)>>
RightTriangle == <<P4(0, 0), P4(4, 0), P4(0, 4)>>
SmallTriangle == <<P4(0, 0), P4(2, 0), P4(0, 2)>>
Pentagon == <<P4(0, 0), P4(4, 0), P4(6, 2), P4(4, 4), P4(0, 4)>>
\* Concave: the unit square with a notch cut from its top edge down to (1/2, 1/4).
Dart == <<P4(0, 0), P4(4, 0), P4(4, 4), P4(2, 1), P4(0, 4)>>
\* Concave: the unit square without its upper right quarter.
LShape == <<P4(0, 0), P4(4, 0), P4(4, 2), P4(2, 2), P4(2, 4), P4(0, 4)>>

ConvexPolygons == {UnitSquare, UnitSquareCw, RightTriangle, SmallTriangle, Pentagon}
SimplePolygons == ConvexPolygons \cup {Dart, LShape}
\* Vertex sequences that are no polygon: polygon_area is 0 for them.
DegeneratePolygons == {<<>>, <<P4(0, 0)>>, <<P4(0, 0), P4(4, 4)>>}
InputPolygons == SimplePolygons \cup DegeneratePolygons

\* The segment from (a/4, b/4) to (c/4, d/4).
L4(a, b, c, d) == Line(P4(a, b), P4(c, d))

\* The cutting lines of the tests of main.rs (the x = 0.123456789 one apart,
\* whose coordinates do not fit), and some more.
Diagonal == L4(0, 0, 4, 4)
Vertical == L4(2, 0, 2, 4)
Horizontal == L4(0, 2, 4, 2)
Outside == L4(8, 8, 12, 12)
EndsInside == L4(8, 8, 2, 2)
PartlyDiagonal == Line(Point(Q(1, 10), Zero), Point(One, One))
AlongBottomEdge == L4(0, 0, 4, 0)
AntiDiagonal == L4(4, 0, 0, 4)
ShallowFromOrigin == L4(0, 0, 4, 2)
SteepFromOrigin == L4(0, 0, 2, 4)

CutLines == {Diagonal, Vertical, Horizontal, Outside, EndsInside, PartlyDiagonal,
             AlongBottomEdge, AntiDiagonal, ShallowFromOrigin, SteepFromOrigin}

RECURSIVE SeqsUpTo(_, _)
SeqsUpTo(S, n) ==
    IF n = 0
    THEN {<<>>}
    ELSE LET shorter == SeqsUpTo(S, n - 1)
         IN  shorter \cup {Append(s, e) : s \in shorter, e \in S}

(***************************************************************************)
(* The driver as a state machine: one step per cutting line.               *)
(***************************************************************************)
\* Line 176: the call get_largest_polygon_area(polygon_points, lines).
Init ==
    /\ polygon_points \in InputPolygons
    /\ lines \in SeqsUpTo(CutLines, MaxLines)
    /\ polygons = <<polygon_points>>
    /\ idx = 0
    /\ pc = "lines"
    /\ largest_area = 0

\* Lines 179-195: one iteration of `for line in lines`.
ProcessLine ==
    /\ pc = "lines"
    /\ idx < Len(lines)
    /\ polygons' = NewPolygons(polygons, lines[idx + 1], 1)
    /\ idx' = idx + 1
    /\ UNCHANGED <<polygon_points, lines, pc, largest_area>>

\* Lines 197-206: the lines are exhausted, the largest area is returned.
ReturnLargest ==
    /\ pc = "lines"
    /\ idx = Len(lines)
    /\ largest_area' = LargestArea(polygons, 1, 0)
    /\ pc' = "returned"
    /\ UNCHANGED <<polygon_points, lines, polygons, idx>>

Next == ProcessLine \/ ReturnLargest

Spec == Init /\ [][Next]_vars

(***************************************************************************)
(* split_polygon on its own: one call on a polygon and a segment.          *)
(***************************************************************************)
\* The points of the grid {0, 1/2, ..., GridMax/2}^2 and the segments
\* between them (p1 = p2 included: a segment of length 0).
GridPoints == {Point(Q(i, 2), Q(j, 2)) : i \in 0..GridMax, j \in 0..GridMax}
GridLines == {Line(p, q) : p \in GridPoints, q \in GridPoints}

\* Fragments as the driver hands them on: the halves of the unit square cut
\* along its diagonal repeat the vertices the cut went through.
DiagonalHalves == {SplitOrKeep(UnitSquare, Diagonal)[k] : k \in 1..2}

InitSplit ==
    /\ polygon_points \in InputPolygons \cup DiagonalHalves
    /\ lines \in {<<l>> : l \in GridLines \cup CutLines}
    /\ polygons = <<>>
    /\ idx = 0
    /\ pc = "split"
    /\ largest_area = 0

\* Lines 95-151: the call split_polygon(polygon_points, lines[1]); polygons
\* receives the two fragments of Some, pc tells Some from None.
SplitPolygon ==
    /\ pc = "split"
    /\ LET split_result == split_polygon(polygon_points, lines[1])
       IN  /\ polygons' = IF split_result = <<>> THEN <<>> ELSE split_result[1]
           /\ pc' = IF split_result = <<>> THEN "none" ELSE "some"
    /\ UNCHANGED <<polygon_points, lines, idx, largest_area>>

NextSplit == SplitPolygon

SpecSplit == InitSplit /\ [][NextSplit]_vars

(***************************************************************************)
(* polygon_area on its own, in f64: one call on a vertex sequence.         *)
(***************************************************************************)
Big == Pow2(BigExponent)
PF(a, b) == Point(F64FromInt(a), F64FromInt(b))
AreaPoints == {PF(0, 0), PF(0, 1), PF(1, 1), PF(1, Big), PF(Big, 0)}

\* The sequences of at most n different elements of S.
RECURSIVE DistinctSeqs(_, _)
DistinctSeqs(S, n) ==
    IF n = 0
    THEN {<<>>}
    ELSE LET shorter == DistinctSeqs(S, n - 1)
         IN  shorter \cup UNION {{Append(s, e) : e \in S \ {s[i] : i \in 1..Len(s)}} :
                                    s \in shorter}

AreaInputs == DistinctSeqs(AreaPoints, AreaMaxVertices)

InitArea ==
    /\ polygon_points \in AreaInputs
    /\ lines = <<>>
    /\ polygons = <<>>
    /\ idx = 0
    /\ pc = "area"
    /\ largest_area = F64Zero

\* Lines 154-171: the call polygon_area(polygon_points).
PolygonArea ==
    /\ pc = "area"
    /\ largest_area' = polygon_area_f64(polygon_points)
    /\ pc' = "area_done"
    /\ UNCHANGED <<polygon_points, lines, polygons, idx>>

NextArea == PolygonArea

SpecArea == InitArea /\ [][NextArea]_vars

(***************************************************************************)
(* Vocabulary of the properties.                                           *)
(***************************************************************************)
RECURSIVE SumAreas(_)
SumAreas(polys) ==
    IF polys = <<>> THEN 0 ELSE polygon_area(Head(polys)) + SumAreas(Tail(polys))

Reverse(s) == [i \in 1..Len(s) |-> s[Len(s) + 1 - i]]

\* s can be obtained from t by deleting elements.
RECURSIVE IsSubseq(_, _)
IsSubseq(s, t) ==
    IF s = <<>>
    THEN TRUE
    ELSE IF t = <<>>
         THEN FALSE
         ELSE IF Head(s) = Head(t)
              THEN IsSubseq(Tail(s), Tail(t))
              ELSE IsSubseq(s, Tail(t))

Occurrences(s, e) == Cardinality({i \in 1..Len(s) : s[i] = e})

Elements(s) == {s[i] : i \in 1..Len(s)}

\* side > EPSILON, side < -EPSILON, |side| <= EPSILON
RightOf(line, p) == ~LeEpsilon(point_line_side(line, p))
LeftOf(line, p) == ~GeNegEpsilon(point_line_side(line, p))
OnLine(line, p) == ~RightOf(line, p) /\ ~LeftOf(line, p)

\* The vertices of polygon the claim sends to polygon A, to polygon B.
VerticesForA(polygon, line) ==
    LET Keep(p) == ~LeftOf(line, p) IN SelectSeq(polygon, Keep)
VerticesForB(polygon, line) ==
    LET Keep(p) == ~RightOf(line, p) IN SelectSeq(polygon, Keep)

(***************************************************************************)
(* C1                                                                      *)
(***************************************************************************)
\* C1: for every simple polygon, convex or concave, and every segment for
\* which split_polygon succeeds, the areas of the two fragments add up to the
\* area of the polygon, within 1e-6 (10 units of 1e-7).
C1_FragmentAreasAddUp ==
    (pc = "some" /\ polygon_points \in SimplePolygons)
        => LET diff == polygon_area(polygons[1]) + polygon_area(polygons[2])
                           - polygon_area(polygon_points)
           IN  IAbs(diff) <= 10

(***************************************************************************)
(* C8                                                                      *)
(***************************************************************************)
\* C8: on a successful split every vertex of P is copied to an output polygon
\* in its original relative order: a vertex with point_line_side > EPSILON is
\* in polygon A only, one with point_line_side < -EPSILON in polygon B only,
\* one within EPSILON of the line in both.
C8_VerticesKeepSideAndOrder ==
    pc = "some"
        => LET line == lines[1]
               A == polygons[1]
               B == polygons[2]
           IN  /\ IsSubseq(VerticesForA(polygon_points, line), A)
               /\ IsSubseq(VerticesForB(polygon_points, line), B)
               /\ \A i \in 1..Len(polygon_points) :
                      LET v == polygon_points[i]
                      IN  /\ RightOf(line, v) => v \in Elements(A) /\ v \notin Elements(B)
                          /\ LeftOf(line, v) => v \in Elements(B) /\ v \notin Elements(A)
                          /\ OnLine(line, v) => v \in Elements(A) /\ v \in Elements(B)

\* A split with vertices on the right, on the left and on the line.
C8_Witness ==
    /\ pc = "some"
    /\ \E i, j, k \in 1..Len(polygon_points) :
           /\ RightOf(lines[1], polygon_points[i])
           /\ LeftOf(lines[1], polygon_points[j])
           /\ OnLine(lines[1], polygon_points[k])

(***************************************************************************)
(* C9                                                                      *)
(***************************************************************************)
\* C9: on a successful split each of the two registered intersection points
\* is inserted exactly once into polygon A and exactly once into polygon B, so
\* that |A| + |B| = n + k + 4 for the n vertices of P, k of them within
\* EPSILON of the line.
C9_EachIntersectionInsertedOnce ==
    pc = "some"
        => LET line == lines[1]
               A == polygons[1]
               B == polygons[2]
               n == Len(polygon_points)
               k == Cardinality({i \in 1..n : OnLine(line, polygon_points[i])})
               registered == find_intersections(polygon_points, line)
           IN  /\ Len(A) + Len(B) = n + k + 4
               /\ \A m \in 1..2 :
                      /\ Occurrences(A, registered[m])
                             = Occurrences(VerticesForA(polygon_points, line),
                                           registered[m]) + 1
                      /\ Occurrences(B, registered[m])
                             = Occurrences(VerticesForB(polygon_points, line),
                                           registered[m]) + 1

\* A split whose two intersection points are vertices, each produced by the
\* two edges that meet there.
C9_Witness ==
    /\ pc = "some"
    /\ polygon_points = UnitSquare
    /\ lines = <<Diagonal>>
    /\ Len(polygons[1]) = 5

(***************************************************************************)
(* C2                                                                      *)
(***************************************************************************)
\* C2 as stated: for a convex input polygon, after any prefix of the lines,
\* the areas of the polygons of the working set add up to exactly the area
\* of the input polygon.
C2_AreasAddUpExactly ==
    polygon_points \in ConvexPolygons
        => SumAreas(polygons) = polygon_area(polygon_points)

\* C2 amended: for a convex input polygon, after any prefix of the lines, the
\* areas of the polygons of the working set add up to the area of the input
\* polygon but for the rounding of polygon_area, at most 1e-7 for each polygon
\* of the working set.
C2_AreasAddUpToRounding ==
    polygon_points \in ConvexPolygons
        => IAbs(SumAreas(polygons) - polygon_area(polygon_points)) <= Len(polygons)

\* Two cuts of a convex polygon, the second one through fragments of the
\* first, after which the rounded areas no longer add up exactly.
C2_Witness ==
    /\ polygon_points \in ConvexPolygons
    /\ idx = 2
    /\ Len(polygons) >= 3
    /\ SumAreas(polygons) # polygon_area(polygon_points)

(***************************************************************************)
(* C3                                                                      *)
(***************************************************************************)
\* Twice the signed area of the triangle a, b, p: positive when p is left of
\* the directed edge a -> b.
Cross(a, b, p) ==
    Sub(Mul(Sub(b.x, a.x), Sub(p.y, a.y)), Mul(Sub(b.y, a.y), Sub(p.x, a.x)))

\* p is an interior point of the convex polygon.
InInterior(polygon, p) ==
    LET turn == Sign(Shoelace(polygon, 1, Zero))
    IN  /\ turn # 0
        /\ \A i \in 1..Len(polygon) :
               LET e == Edge(polygon, i)
               IN  e.p1 # e.p2 => turn * Sign(Cross(e.p1, e.p2, p)) > 0

\* The point of the segment at parameter s.
PointAt(line, s) ==
    Point(Add(line.p1.x, Mul(s, Sub(line.p2.x, line.p1.x))),
          Add(line.p1.y, Mul(s, Sub(line.p2.y, line.p1.y))))

\* The parameters at which the segment meets the line of an edge, with 0 and 1.
Crossings(polygon, line) ==
    {Zero, One} \cup
    {Div(Cross(Edge(polygon, i).p1, Edge(polygon, i).p2, line.p1),
         Sub(Cross(Edge(polygon, i).p1, Edge(polygon, i).p2, line.p1),
             Cross(Edge(polygon, i).p1, Edge(polygon, i).p2, line.p2))) :
        i \in {j \in 1..Len(polygon) :
                  Cross(Edge(polygon, j).p1, Edge(polygon, j).p2, line.p1)
                      # Cross(Edge(polygon, j).p1, Edge(polygon, j).p2, line.p2)}}

\* The segment contains an interior point of the convex polygon: the part of
\* the segment inside is an interval between two crossings, so its midpoint
\* is inside.
ContainsInterior(polygon, line) ==
    \E s1, s2 \in Crossings(polygon, line) :
        LET s == Div(Add(s1, s2), <<2, 1>>)
        IN  /\ ~Lt(s, Zero)
            /\ ~Lt(One, s)
            /\ InInterior(polygon, PointAt(line, s))

\* new holds, in order, for each polygon of old either the polygon or two
\* fragments, and the polygon itself where the segment has no interior point.
RECURSIVE UntouchedCarried(_, _, _)
UntouchedCarried(old, new, line) ==
    IF old = <<>>
    THEN new = <<>>
    ELSE /\ new # <<>>
         /\ IF ~ContainsInterior(Head(old), line)
            THEN /\ Head(new) = Head(old)
                 /\ UntouchedCarried(Tail(old), Tail(new), line)
            ELSE \/ UntouchedCarried(Tail(old), Tail(new), line)
                 \/ /\ Len(new) >= 2
                    /\ UntouchedCarried(Tail(old), Tail(Tail(new)), line)

\* C3: when a cutting segment contains no point of a polygon's interior (it
\* misses the polygon, touches one vertex or runs along an edge), processing
\* the line leaves that polygon in the working set with its vertex sequence
\* unchanged and adds no fragment of it.  Stated for convex input polygons,
\* whose fragments are convex.
C3_TangentialCutLeavesUntouched ==
    [][(pc = "lines" /\ idx' = idx + 1 /\ polygon_points \in ConvexPolygons)
           => UntouchedCarried(polygons, polygons', lines[idx + 1])]_vars

(***************************************************************************)
(* C4                                                                      *)
(***************************************************************************)
\* The number of distinct boundary intersection points the code finds.
Crossed(polygon, line) == Len(find_intersections(polygon, line))

\* Where polygon i of the working set lands in the next one when every
\* polygon before it with exactly two intersections is replaced by two.
Landing(polys, line, i) ==
    i + Cardinality({k \in 1..(i - 1) : Crossed(polys[k], line) = 2})

\* C4: when a line has not exactly 2 distinct boundary intersections with a
\* polygon, split_polygon returns None and the driver carries the polygon on
\* with an identical vertex sequence; a single such line applied to P gives
\* polygon_area(P).
C4_NoCutCarriesPolygon ==
    [][/\ (pc = "lines" /\ idx' = idx + 1)
           => \A i \in 1..Len(polygons) :
                  Crossed(polygons[i], lines[idx + 1]) # 2
                      => /\ split_polygon(polygons[i], lines[idx + 1]) = <<>>
                         /\ Landing(polygons, lines[idx + 1], i) <= Len(polygons')
                         /\ polygons'[Landing(polygons, lines[idx + 1], i)] = polygons[i]
       /\ (/\ pc = "lines"
           /\ pc' = "returned"
           /\ Len(lines) = 1
           /\ Crossed(polygon_points, lines[1]) # 2)
           => largest_area' = polygon_area(polygon_points)]_vars

\* The segment that ends inside the unit square was applied to it (one
\* intersection point) and the area was returned.
C4_Witness ==
    /\ pc = "returned"
    /\ polygon_points = UnitSquare
    /\ lines = <<EndsInside>>
    /\ Crossed(polygon_points, lines[1]) = 1
    /\ polygons = <<polygon_points>>

(***************************************************************************)
(* C5                                                                      *)
(***************************************************************************)
\* C5: for every polygon, of any number of vertices, and the empty list of
\* lines, get_largest_polygon_area returns polygon_area of the polygon.
C5_NoLinesGivesArea ==
    (pc = "returned" /\ lines = <<>>)
        => largest_area = polygon_area(polygon_points)

\* The call with no lines returned, for a polygon with a positive area.
C5_Witness ==
    /\ pc = "returned"
    /\ lines = <<>>
    /\ Len(polygon_points) >= 3
    /\ largest_area > 0

(***************************************************************************)
(* C6                                                                      *)
(***************************************************************************)
\* C6: for the unit square, the diagonal cut leaves two triangles, the
\* vertical cut at x = 1/2 then splits each of them, and the largest of the
\* four fragments has area 0.375.
C6_DiagonalThenVertical ==
    (polygon_points = UnitSquare /\ lines = <<Diagonal, Vertical>>)
        => /\ idx = 1 => /\ Len(polygons) = 2
                         /\ \A i \in 1..2 : polygon_area(polygons[i]) = 5000000
           /\ idx = 2 => /\ Len(polygons) = 4
                         /\ {polygon_area(polygons[i]) : i \in 1..4}
                                = {1250000, 3750000}
           /\ pc = "returned" => largest_area = 3750000

\* The sample call returned.
C6_Witness ==
    /\ polygon_points = UnitSquare
    /\ lines = <<Diagonal, Vertical>>
    /\ idx = 2
    /\ pc = "returned"

(***************************************************************************)
(* C7                                                                      *)
(***************************************************************************)
\* C7: polygon_area of a vertex sequence and of its reversal are equal, and
\* the value is never negative; in f64 arithmetic, as the code computes it.
C7_AreaOfReversal ==
    pc = "area_done" =>
        /\ polygon_area_f64(Reverse(polygon_points)) = largest_area
        /\ ~largest_area.neg

(***************************************************************************)
(* C10                                                                     *)
(***************************************************************************)
\* new holds, in order, for each polygon of old either the polygon itself or
\* two polygons.
RECURSIVE Represents(_, _)
Represents(old, new) ==
    IF old = <<>>
    THEN new = <<>>
    ELSE \/ /\ new # <<>>
            /\ Head(new) = Head(old)
            /\ Represents(Tail(old), Tail(new))
         \/ /\ Len(new) >= 2
            /\ Represents(Tail(old), Tail(Tail(new)))

\* C10: the working set is never empty and never shrinks: processing the
\* j-th line leaves at least as many polygons as before, at most twice as
\* many and at most 2^j, each former polygon being represented by itself or
\* by two fragments, in order.
C10_WorkingSetGrows ==
    [][/\ Len(polygons) >= 1
       /\ Len(polygons') >= Len(polygons)
       /\ Len(polygons') <= 2 * Len(polygons)
       /\ Len(polygons') <= Pow2(idx')
       /\ Represents(polygons, polygons')]_vars

\* Two lines processed: the first cut the polygon, the second cut one of the
\* fragments and missed the other.
C10_Witness ==
    /\ pc = "lines"
    /\ idx = 2
    /\ Len(polygons) = 3

=============================================================================
